---- MODULE Spec2Model ----
(***************************************************************************)
(* Model of the bookmark manager's "analyze" serverless handler.           *)
(*                                                                         *)
(* The repository keeps six revisions of the handler side by side:         *)
(*   "A1"  src/api/analyze.js:353-436        scrape only, no AI            *)
(*   "A2"  src/api/analyze.js:167-350        AI + keyword categories       *)
(*   "A3"  src/api/analyze.js:4-163          AI + URL categories, embed    *)
(*   "P1"  src/unnamed/part_001:4-206        + YouTube oEmbed              *)
(*   "P0"  src/unnamed/part_000:4-221        + GitHub / price scraping     *)
(*   "F"   src/api/fetch-article.js:66-313   + image carousel              *)
(* One request is followed from its arrival to its response.  The handler  *)
(* is an async function, so it runs atomically between its awaits: the     *)
(* actions are the code segments between two awaits.                       *)
(*                                                                         *)
(* Two more specifications follow the handler's: AppSpec, the React client *)
(* of src/unnamed/part_002 (its bookmark list, the asynchronous add, the   *)
(* backup import), and GeminiSpec, callGeminiApi of src/src/App.jsx with   *)
(* its retry loop.  Each leaves the variables of the others at rest.       *)
(*                                                                         *)
(* JavaScript strings are TLA+ strings; undefined / missing values that    *)
(* the code only ever tests with `!x` or `x || y` are the empty string.    *)
(***************************************************************************)
EXTENDS Integers, Sequences, FiniteSets, TLC

VARIABLES
  variant,      \* the revision of the handler that serves the request
  pc,           \* where the handler is: "idle", "oembed", "fetch", "ai", "done"
  req,          \* req.method and req.body
  fullUrl,      \* const fullUrl; "" until it is built
  youtubeData,  \* let youtubeData = {}
  response,     \* const response = await fetch(...), the page fetch
  html,         \* the document loaded from response.text()
  ext,          \* title, image, productImages, contentHtml, category
  ai,           \* the AI block: "none", "ok" (aiData obtained), "failed" (caught)
  net,          \* the requests handed to fetch / generateContent, in order
  sent,         \* the responses written with res.status(..).json(..), in order
  oembed,       \* how the oEmbed request settled, "none" before it has
  thrown,       \* the places of the handler where an exception was raised
  aiText,       \* const responseText = result.response.text(); <<>> before
  \* the client, src/unnamed/part_002
  bookmarks,        \* const [bookmarks, setBookmarks]
  storedBookmarks,  \* localStorage 'things3-bookmarks'
  apiKey,           \* const [apiKey, setApiKey]
  selectedModel,    \* const [selectedModel, setSelectedModel]
  newUrl,           \* const [newUrl, setNewUrl]
  isAdding,         \* const [isAdding, setIsAdding]
  isProcessing,     \* const [isProcessing, setIsProcessing]
  inflight,         \* the calls of handleAddBookmark waiting for /api/analyze
  reading,          \* the files handed to reader.readAsText
  applied,          \* history: the list with every completed operation applied
  now,              \* Date.now()
  \* callGeminiApi, src/src/App.jsx
  gpc,          \* where the call is: "idle", "fetch", "wait", "returned"
  attempt,      \* the loop counter i
  delay,        \* let delay = 1000
  waited,       \* the delays handed to setTimeout, in order
  warned,       \* console.warn: the error of each failed attempt, in order
  returned,     \* the value callGeminiApi returned
  isAnalyzing   \* const [isAnalyzing, setIsAnalyzing]

handlerVars ==
  <<variant, pc, req, fullUrl, youtubeData, response, html, ext, ai, net, sent,
    oembed, thrown, aiText>>

appVars ==
  <<bookmarks, storedBookmarks, apiKey, selectedModel, newUrl, isAdding,
    isProcessing, inflight, reading, applied, now>>

geminiVars == <<gpc, attempt, delay, waited, warned, returned, isAnalyzing>>

vars == <<handlerVars, appVars, geminiVars>>

Variants == {"A1", "A2", "A3", "P1", "P0", "F"}

(***************************************************************************)
(* String primitives, after the methods of String.prototype               *)
(***************************************************************************)
CharAt(s, i) == SubSeq(s, i, i)

StartsWith(s, p) == Len(s) >= Len(p) /\ SubSeq(s, 1, Len(p)) = p

RECURSIVE IndexFrom(_, _, _)
IndexFrom(s, p, i) ==
  IF i + Len(p) - 1 > Len(s) THEN 0
  ELSE IF SubSeq(s, i, i + Len(p) - 1) = p THEN i
  ELSE IndexFrom(s, p, i + 1)

\* first index (1-based) at which p occurs in s, 0 when it does not occur
IndexOf(s, p) == IndexFrom(s, p, 1)

RECURSIVE LastIndexFrom(_, _, _)
LastIndexFrom(s, c, i) ==
  IF i = 0 THEN 0
  ELSE IF CharAt(s, i) = c THEN i
  ELSE LastIndexFrom(s, c, i - 1)

\* last index at which the one-character string c occurs in s, 0 when none
LastIndexOf(s, c) == LastIndexFrom(s, c, Len(s))

Includes(s, p) ==
  \E i \in 1..(Len(s) - Len(p) + 1) : SubSeq(s, i, i + Len(p) - 1) = p

\* the concatenation of pieces[lo], ..., pieces[hi]
RECURSIVE Join(_, _, _)
Join(pieces, lo, hi) ==
  IF lo > hi THEN ""
  ELSE IF lo = hi THEN pieces[lo]
  ELSE LET mid == (lo + hi) \div 2
       IN  Join(pieces, lo, mid) \o Join(pieces, mid + 1, hi)

DropFirst(s, n) == SubSeq(s, n + 1, Len(s))

Whitespace == {" ", "\t", "\n", "\r"}

RECURSIVE TrimLeft(_)
TrimLeft(s) ==
  IF s # "" /\ CharAt(s, 1) \in Whitespace THEN TrimLeft(DropFirst(s, 1)) ELSE s

RECURSIVE TrimRight(_)
TrimRight(s) ==
  IF s # "" /\ CharAt(s, Len(s)) \in Whitespace
  THEN TrimRight(SubSeq(s, 1, Len(s) - 1))
  ELSE s

Trim(s) == TrimRight(TrimLeft(s))

UpperChars == "ABCDEFGHIJKLMNOPQRSTUVWXYZ"
LowerChars == "abcdefghijklmnopqrstuvwxyz"
DigitChars == "0123456789"

CharsOf(s) == {CharAt(s, i) : i \in 1..Len(s)}

LowerOf == [c \in CharsOf(UpperChars) |-> CharAt(LowerChars, IndexOf(UpperChars, c))]

AlphaSet == CharsOf(LowerChars) \cup CharsOf(UpperChars)

IsAlpha(c) == c \in AlphaSet

LowerChar(c) == IF c \in DOMAIN LowerOf THEN LowerOf[c] ELSE c

ToLowerCase(s) == Join([i \in 1..Len(s) |-> LowerChar(CharAt(s, i))], 1, Len(s))

\* a || b on strings: the first operand unless it is falsy (empty)
Or(a, b) == IF a # "" THEN a ELSE b

(***************************************************************************)
(* URL parsing: new URL(s) and new URL(rel, base).href                     *)
(***************************************************************************)
SchemeChars == AlphaSet \cup CharsOf(DigitChars) \cup {"+", "-", "."}

\* length of the scheme of s (the characters before the first ":"), or 0
\* when s does not begin with  ALPHA *( ALPHA / DIGIT / "+" / "-" / "." ) ":"
SchemeLen(s) ==
  LET k == IndexOf(s, ":")
  IN  IF /\ k > 1
         /\ IsAlpha(CharAt(s, 1))
         /\ \A i \in 1..(k - 1) : CharAt(s, i) \in SchemeChars
      THEN k - 1
      ELSE 0

HasScheme(s) == SchemeLen(s) > 0

Scheme(s) == ToLowerCase(SubSeq(s, 1, SchemeLen(s)))

SpecialSchemes == {"http", "https"}

RECURSIVE SkipSlashes(_)
SkipSlashes(s) ==
  IF s # "" /\ CharAt(s, 1) \in {"/", "\\"} THEN SkipSlashes(DropFirst(s, 1)) ELSE s

\* the prefix of s that ends before the first of "/", "?", "#"
RECURSIVE UpToDelim(_)
UpToDelim(s) ==
  IF s = "" \/ CharAt(s, 1) \in {"/", "?", "#"}
  THEN ""
  ELSE CharAt(s, 1) \o UpToDelim(DropFirst(s, 1))

\* authority of an absolute special URL, and what follows it
Authority(s) == UpToDelim(SkipSlashes(DropFirst(s, SchemeLen(s) + 1)))

AfterAuthority(s) ==
  LET r == SkipSlashes(DropFirst(s, SchemeLen(s) + 1))
  IN  DropFirst(r, Len(Authority(s)))

\* host of an authority: what precedes a trailing ":port"
HostOf(auth) ==
  LET k == LastIndexOf(auth, ":")
  IN  IF k > 0 THEN SubSeq(auth, 1, k - 1) ELSE auth

ForbiddenHostChars == {" ", "<", ">", "[", "]", "^", "|", "%"}

\* new URL(s) does not throw
ParsesAsURL(s) ==
  /\ HasScheme(s)
  /\ Scheme(s) \in SpecialSchemes =>
       LET host == HostOf(Authority(s))
       IN  /\ host # ""
           /\ \A i \in 1..Len(host) : CharAt(host, i) \notin ForbiddenHostChars

\* the authority as serialised: lower case, an empty port dropped
SerializeAuthority(auth) ==
  IF auth # "" /\ CharAt(auth, Len(auth)) = ":"
  THEN ToLowerCase(SubSeq(auth, 1, Len(auth) - 1))
  ELSE ToLowerCase(auth)

\* new URL(s).href for an s that parses: scheme and host in lower case, one
\* "//" after the scheme, "/" for an empty path
Href(s) ==
  IF Scheme(s) \in SpecialSchemes
  THEN LET rest == AfterAuthority(s)
       IN  Scheme(s) \o "://" \o SerializeAuthority(Authority(s))
             \o (IF rest = "" \/ CharAt(rest, 1) # "/" THEN "/" ELSE "")
             \o rest
  ELSE Scheme(s) \o DropFirst(s, SchemeLen(s))

\* the path of a serialised special URL, without query and fragment
PathOf(href) ==
  LET p == AfterAuthority(href)
      q == IndexOf(p, "?")
      h == IndexOf(p, "#")
      cut == IF q > 0 /\ (h = 0 \/ q < h) THEN q ELSE h
  IN  IF cut > 0 THEN SubSeq(p, 1, cut - 1) ELSE p

\* the path up to and including its last "/"
DirOf(path) == SubSeq(path, 1, LastIndexOf(path, "/"))

\* const baseUrl = new URL(fullUrl), for a fullUrl that parses as http(s)
BaseUrl(fu) ==
  LET href == Href(fu)
  IN  [href |-> href,
       scheme |-> Scheme(fu),
       origin |-> Scheme(fu) \o "://" \o SerializeAuthority(Authority(fu)),
       dir |-> DirOf(PathOf(href))]

NoBaseUrl == [href |-> "", scheme |-> "", origin |-> "", dir |-> ""]

\* new URL(rel, base) does not throw
Resolves(rel, base) ==
  IF HasScheme(rel) THEN ParsesAsURL(rel)
  ELSE IF StartsWith(rel, "//")
  THEN base # NoBaseUrl /\ ParsesAsURL(base.scheme \o ":" \o rel)
  ELSE base # NoBaseUrl

\* new URL(rel, base).href
Resolve(rel, base) ==
  IF HasScheme(rel) THEN Href(rel)
  ELSE IF StartsWith(rel, "//") THEN Href(base.scheme \o ":" \o rel)
  ELSE IF StartsWith(rel, "/") THEN base.origin \o rel
  ELSE IF rel = "" THEN base.href
  ELSE base.origin \o base.dir \o rel

(***************************************************************************)
(* Which revision does what                                                *)
(***************************************************************************)
\* the revisions that build fullUrl / baseUrl before the page fetch
\* (the others call fetch(url) first and normalize after it)
NormalizesBeforeFetch(v) == v \in {"P1", "P0", "F"}

\* the revisions that never build fullUrl
NeverNormalizes(v) == v = "A1"

HasOEmbed(v) == v \in {"P1", "P0", "F"}

HasAI(v) == v # "A1"

HasImages(v) == v = "F"

(***************************************************************************)
(* Handler fragments                                                       *)
(***************************************************************************)
\* const fullUrl = url.startsWith('http') ? url : `https://${url}`;
NormalizeUrl(url) == IF StartsWith(url, "http") THEN url ELSE "https://" \o url

\* every url taken for a YouTube url
IsYoutubeAlways(u) == TRUE

\* const isYoutube = fullUrl.includes('youtube.com') || fullUrl.includes('youtu.be');
IsYoutube(u) == Includes(u, "youtube.com") \/ Includes(u, "youtu.be")

\* the url check left out
MissingUrlUnchecked(url) == FALSE

\* if (!url)
MissingUrl(url) == url = ""

\* response.ok
IsOk(status) == status \in 200..299

StatusText(status) ==
  CASE status = 200 -> "OK"
    [] status = 404 -> "Not Found"
    [] status = 503 -> "Service Unavailable"
    [] OTHER -> ""

\* fetch(u) can reach the network only for an absolute http(s) URL; for
\* anything else the returned promise rejects with a TypeError
Fetchable(u) == ParsesAsURL(u) /\ Scheme(u) \in {"http", "https"}

\* let scrapedMetadata = {};
NoMeta ==
  [keys |-> {}, stars |-> "", forks |-> "", author |-> "", platform |-> "",
   price |-> ""]

\* res.status(s).json({error, details})
NoBody ==
  [title |-> "", content |-> "", image |-> "", images |-> <<>>,
   category |-> "", metadata |-> NoMeta, readingTime |-> "", videoEmbed |-> "",
   summary |-> "", usedModel |-> ""]

ErrorResponse(status, error, details) ==
  [status |-> status,
   keys |-> IF details = "" THEN {"error"} ELSE {"error", "details"},
   error |-> error, details |-> details] @@ NoBody

MethodNotAllowed == ErrorResponse(405, "Method not allowed", "")

UrlRequired == ErrorResponse(400, "URL is required", "")

\* the boundary answering without the message
CaughtErrorWithoutDetails(message) == ErrorResponse(500, "Failed to analyze URL", "")

\* the catch block at the request boundary
CaughtError(message) == ErrorResponse(500, "Failed to analyze URL", message)

\* encodeURIComponent: everything but A-Z a-z 0-9 - _ . ! ~ * ' ( ) is escaped
Unescaped == AlphaSet \cup CharsOf(DigitChars \o "-_.!~*'()")

EncodeChar(c) ==
  CASE c \in Unescaped -> c
    [] c = ":" -> "%3A"
    [] c = "/" -> "%2F"
    [] c = "?" -> "%3F"
    [] c = "=" -> "%3D"
    [] c = "&" -> "%26"
    [] c = "#" -> "%23"
    [] c = " " -> "%20"
    [] OTHER -> "%" \o c

RECURSIVE EncodeURIComponent(_)
EncodeURIComponent(s) ==
  IF s = "" THEN "" ELSE EncodeChar(CharAt(s, 1)) \o EncodeURIComponent(DropFirst(s, 1))

OEmbedUrl(fu) ==
  "https://www.youtube.com/oembed?url=" \o EncodeURIComponent(fu) \o "&format=json"

NoYoutubeData == [title |-> "", thumbnail_url |-> "", author_name |-> ""]

\* youtubeData after a body that is the JSON value null
NullData == [title |-> "", thumbnail_url |-> "", author_name |-> "", null |-> TRUE]

\* fetch(oembedUrl) or oembedRes.json() rejects
OEmbedRejects(outcome) == outcome.kind \in {"throws", "invalid"}

\* the body parsed whatever the status
YoutubeDataUnchecked(outcome) ==
  CASE outcome.kind = "json" -> outcome.data
    [] outcome.kind = "null" -> NullData
    [] outcome.kind = "status" -> [NoYoutubeData EXCEPT !.title = "Not Found"]
    [] OTHER -> NoYoutubeData

\* if (oembedRes.ok) youtubeData = await oembedRes.json();  in try / catch
YoutubeDataAfter(outcome) ==
  CASE outcome.kind = "json" -> outcome.data
    [] outcome.kind = "null" -> NullData
    [] OTHER -> NoYoutubeData

NoExt ==
  [done |-> FALSE, title |-> "", image |-> "", images |-> <<>>,
   content |-> "", category |-> "", metadata |-> NoMeta, readingTime |-> "",
   videoEmbed |-> "", description |-> "", imgs |-> <<>>]

(***************************************************************************)
(* Extraction from the fetched document                                    *)
(*                                                                         *)
(* A document is a record of what the selectors of the handler read:       *)
(*   titleText  $('title').first().text()                                  *)
(*   ogTitle    $('meta[property="og:title"]').attr('content')             *)
(*   ogImage    $('meta[property="og:image"]').attr('content')             *)
(*   imgs       the img elements in document order, each with its          *)
(*              data-src, data-original and src attributes                 *)
(*   body       the children of <body>: a sequence of element nodes, each  *)
(*              with its tag, id, class, own text and child nodes          *)
(***************************************************************************)
Node(tag, id, class, text, kids) ==
  [tag |-> tag, id |-> id, class |-> class, text |-> text, kids |-> kids]

Leaf(tag, text) == Node(tag, "", "", text, <<>>)

Elem(tag, kids) == Node(tag, "", "", "", kids)

\* the tags and classes of $('script, style, nav, ...').remove()
DenyTags(v) ==
  {"script", "style", "nav", "footer", "header", "aside"}
    \cup (IF v = "A1" THEN {} ELSE {"iframe"})

DenyClasses(v) ==
  CASE v = "A1" -> {"ad", "advertisement"}
    [] v = "A2" -> {"ad", "advertisement", "cookie-banner"}
    [] OTHER -> {"ad"}

Denied(v, n) == n.tag \in DenyTags(v) \/ n.class \in DenyClasses(v)

\* the nodes that are left once the denylisted elements have been removed
RECURSIVE Remove(_, _)
Remove(v, nodes) ==
  LET kept == SelectSeq(nodes, LAMBDA n : ~Denied(v, n))
  IN  [i \in 1..Len(kept) |-> [kept[i] EXCEPT !.kids = Remove(v, @)]]

OpenTag(n) ==
  "<" \o n.tag
    \o (IF n.id # "" THEN " id=\"" \o n.id \o "\"" ELSE "")
    \o (IF n.class # "" THEN " class=\"" \o n.class \o "\"" ELSE "")
    \o ">"

\* the serialisation of a sequence of nodes
RECURSIVE HtmlOf(_)
HtmlOf(nodes) ==
  IF nodes = <<>> THEN ""
  ELSE LET n == Head(nodes)
       IN  OpenTag(n) \o n.text \o HtmlOf(n.kids) \o "</" \o n.tag \o ">"
             \o HtmlOf(Tail(nodes))

\* .text() of a sequence of nodes
RECURSIVE TextOf(_)
TextOf(nodes) ==
  IF nodes = <<>> THEN ""
  ELSE Head(nodes).text \o TextOf(Head(nodes).kids) \o TextOf(Tail(nodes))

\* the nodes and their descendants, in document order
RECURSIVE Flatten(_)
Flatten(nodes) ==
  IF nodes = <<>> THEN <<>>
  ELSE <<Head(nodes)>> \o Flatten(Head(nodes).kids) \o Flatten(Tail(nodes))

\* $(tag).html(): the inner HTML of the first such element, null when none
InnerHtml(dom, tag) ==
  LET found == SelectSeq(Flatten(dom), LAMBDA n : n.tag = tag)
  IN  IF found = <<>> THEN "" ELSE found[1].text \o HtmlOf(found[1].kids)

\* s.replace(/\s+/g, ' ')
CollapseSpaces(s) ==
  Join([i \in 1..Len(s) |->
          IF CharAt(s, i) \notin Whitespace THEN CharAt(s, i)
          ELSE IF i > 1 /\ CharAt(s, i - 1) \in Whitespace THEN ""
          ELSE " "],
       1, Len(s))

BodyTextCap == 15000

\* s.substring(0, n)
Substring(s, n) == SubSeq(s, 1, IF Len(s) < n THEN Len(s) ELSE n)

\* const bodyText = $('body').text().replace(/\s+/g, ' ').trim()[.substring(0, 15000)]
BodyText(v, doc) ==
  LET text == Trim(CollapseSpaces(TextOf(Remove(v, doc.body))))
  IN  IF v = "A1" THEN text ELSE Substring(text, BodyTextCap)

\* const realSrc = $el.attr('data-src') || $el.attr('data-original') || $el.attr('src');
RealSrc(img) == Or(img.dataSrc, Or(img.dataOriginal, img.src))

\* the icon / logo / avatar heuristic on a resolved image URL
IsContentImage(absUrl) ==
  /\ ~Includes(absUrl, "icon")
  /\ ~Includes(absUrl, "logo")
  /\ ~Includes(absUrl, "avatar")

ProductImagesCap == 5

ImagesSlice == 6

\* the $('img').each(...) loop: productImages after the first n img elements
RECURSIVE CollectImages(_, _, _)
CollectImages(imgs, base, n) ==
  IF n = 0 THEN <<>>
  ELSE LET acc == CollectImages(imgs, base, n - 1)
           realSrc == RealSrc(imgs[n])
           absUrl == Resolve(realSrc, base)
       IN  IF /\ realSrc # ""
              /\ ~StartsWith(realSrc, "data:")
              /\ Resolves(realSrc, base)
              /\ IsContentImage(absUrl)
              /\ Len(acc) < ProductImagesCap
           THEN Append(acc, absUrl)
           ELSE acc

\* whether the revision walks the img elements at all
RewritesImgs(v) == v # "A1"

\* one pass of the body of $('img').each(...) over an element's attributes:
\* a present source that is no data: URL and resolves becomes the src and
\* the srcset goes (A2 drops data-src as well); anything else leaves the
\* element as it was
RewriteImg(v, img, base) ==
  LET realSrc == RealSrc(img)
  IN  IF /\ RewritesImgs(v)
         /\ realSrc # ""
         /\ ~StartsWith(realSrc, "data:")
         /\ Resolves(realSrc, base)
      THEN [img EXCEPT !.src = Resolve(realSrc, base),
                       !.srcset = "",
                       !.dataSrc = IF v = "A2" THEN "" ELSE @]
      ELSE img

\* the img elements of the document after the sanitizer pass, in document
\* order: those inside a removed element are gone with it
SanitizedImgs(v, imgs, base) ==
  LET rewritten == [i \in 1..Len(imgs) |-> RewriteImg(v, imgs[i], base)]
  IN  SelectSeq(rewritten, LAMBDA img : img.inside \notin DenyTags(v))

\* productImages.filter(img => img !== image)
RECURSIVE FilterOut(_, _)
FilterOut(seq, x) ==
  IF seq = <<>> THEN <<>>
  ELSE IF Head(seq) = x THEN FilterOut(Tail(seq), x)
  ELSE <<Head(seq)>> \o FilterOut(Tail(seq), x)

Slice(seq, n) == SubSeq(seq, 1, IF Len(seq) < n THEN Len(seq) ELSE n)

\* the primary image put first without filtering it out of the candidates
PrimaryFirstUnfiltered(image, productImages) ==
  IF image # ""
  THEN Slice(<<image>> \o productImages, ImagesSlice)
  ELSE productImages

\* if (image) productImages = [image, ...productImages.filter(...)].slice(0, 6);
PrimaryFirst(image, productImages) ==
  IF image # ""
  THEN Slice(<<image>> \o FilterOut(productImages, image), ImagesSlice)
  ELSE productImages

\* let image = youtubeData.thumbnail_url || og:image || "";
RawImage(v, doc, yt) ==
  IF v = "A1" THEN ""
  ELSE IF HasOEmbed(v) THEN Or(yt.thumbnail_url, doc.ogImage)
  ELSE doc.ogImage

\* if (image && !image.startsWith('http')) try { ... } catch(e) {}
ExtractImage(v, doc, yt, base) ==
  LET raw == RawImage(v, doc, yt)
  IN  IF raw # "" /\ ~StartsWith(raw, "http") /\ Resolves(raw, base)
      THEN Resolve(raw, base)
      ELSE raw

\* new URL(image, baseUrl) throws (into the empty catch)
ImageThrows(v, doc, yt, base) ==
  LET raw == RawImage(v, doc, yt)
  IN  raw # "" /\ ~StartsWith(raw, "http") /\ ~Resolves(raw, base)

\* new URL(realSrc, baseUrl) throws for some img element (into the empty catch)
ImgThrows(v, doc, base) ==
  /\ v # "A1"
  /\ \E i \in 1..Len(doc.imgs) :
       LET realSrc == RealSrc(doc.imgs[i])
       IN  realSrc # "" /\ ~StartsWith(realSrc, "data:") /\ ~Resolves(realSrc, base)

\* the exceptions that the extraction raises and absorbs
AbsorbedInExtract(v, doc, yt, base) ==
  (IF ImageThrows(v, doc, yt, base) THEN {"image"} ELSE {})
    \cup (IF ImgThrows(v, doc, base) THEN {"img"} ELSE {})

\* const title = youtubeData.title || og:title || <title> || url;
TitleOEmbedFirst(doc, yt, url) ==
  Or(yt.title, Or(doc.ogTitle, Or(Trim(doc.titleText), url)))

\* const title = <title> || og:title || url;
TitleTagFirst(doc, url) == Or(Trim(doc.titleText), Or(doc.ogTitle, url))

\* const title = $('title').first().text().trim() || url;
TitleTagOnly(doc, url) == Or(Trim(doc.titleText), url)

ExtractTitle(v, doc, yt, url) ==
  CASE v \in {"P1", "P0", "F"} -> TitleOEmbedFirst(doc, yt, url)
    [] v \in {"A2", "A1"} -> TitleTagFirst(doc, url)
    [] v = "A3" -> TitleTagOnly(doc, url)

Placeholder == "<div>No readable content found.</div>"

\* let contentHtml = $('article').html() || $('main').html() || $('body').html() || ...
ExtractContent(v, doc) ==
  LET dom == Remove(v, doc.body)
      found == Or(InnerHtml(dom, "article"), Or(InnerHtml(dom, "main"), HtmlOf(dom)))
  IN  IF v = "A1" THEN found ELSE Or(found, Placeholder)

Some(keywords, text) == \E k \in keywords : Includes(text, k)

\* if (isYoutube || fullUrl.includes('vimeo')) ... else if (...'github') ...
CategoryByUrl(fu) ==
  IF IsYoutube(fu) \/ Includes(fu, "vimeo") THEN "Videos"
  ELSE IF Includes(fu, "github") THEN "Coding"
  ELSE IF Includes(fu, "amazon") \/ Includes(fu, "ebay") THEN "Shopping"
  ELSE "Articles"

\* the same with 'gitlab' counted as Coding
CategoryByUrlWithGitlab(fu) ==
  IF IsYoutube(fu) \/ Includes(fu, "vimeo") THEN "Videos"
  ELSE IF Includes(fu, "github") \/ Includes(fu, "gitlab") THEN "Coding"
  ELSE IF Includes(fu, "amazon") \/ Includes(fu, "ebay") THEN "Shopping"
  ELSE "Articles"

\* if (fullUrl.includes('youtube') || fullUrl.includes('vimeo')) ...
CategoryByUrlSubstring(fu) ==
  IF Includes(fu, "youtube") \/ Includes(fu, "vimeo") THEN "Videos"
  ELSE IF Includes(fu, "github") \/ Includes(fu, "gitlab") THEN "Coding"
  ELSE IF Includes(fu, "amazon") \/ Includes(fu, "ebay") THEN "Shopping"
  ELSE "Articles"

\* for (const [cat, keywords] of Object.entries(categoryKeywords)) ...
CategoryByKeywords(text) ==
  LET lowerText == ToLowerCase(text)
  IN  IF Some({"software", "code", "app", "tech", "ai", "data"}, lowerText)
      THEN "Technology"
      ELSE IF Some({"ui", "ux", "color", "font", "layout"}, lowerText)
      THEN "Design"
      ELSE IF Some({"money", "stock", "market", "business", "economy"}, lowerText)
      THEN "Finance"
      ELSE IF Some({"research", "study", "biology", "physics", "space"}, lowerText)
      THEN "Science"
      ELSE "General"

\* if (techKeywords.some(...)) ... else if (designKeywords.some(...)) ...
CategoryByKeywordLists(text) ==
  LET lowerBody == ToLowerCase(text)
  IN  IF Some({"code", "software", "programming", "react", "api", "developer"},
              lowerBody)
      THEN "Technology"
      ELSE IF Some({"ui", "ux", "design", "color", "typography", "layout"}, lowerBody)
      THEN "Design"
      ELSE IF Some({"research", "study", "data", "analysis", "science"}, lowerBody)
      THEN "Science"
      ELSE "General"

\* the manual-fallback category
FallbackCategory(v, fu, text) ==
  CASE v = "F" -> CategoryByUrl(fu)
    [] v \in {"P0", "P1"} -> CategoryByUrlWithGitlab(fu)
    [] v = "A3" -> CategoryByUrlSubstring(fu)
    [] v = "A2" -> CategoryByKeywords(text)
    [] v = "A1" -> CategoryByKeywordLists(text)

(***************************************************************************)
(* Scraped metadata: an object is a record of the values of its keys with  *)
(* the set of the keys that are present                                    *)
(***************************************************************************)
SetKey(meta, k, val) == [meta EXCEPT !.keys = @ \cup {k}, ![k] = val]

\* if (val) scrapedMetadata[k] = val;
SetIf(meta, k, val) == IF val # "" THEN SetKey(meta, k, val) ELSE meta

ByClass(dom, class) == SelectSeq(Flatten(dom), LAMBDA n : n.class = class)

ById(dom, id) == SelectSeq(Flatten(dom), LAMBDA n : n.id = id)

\* $(selector).first().text()
FirstText(found) ==
  IF found = <<>> THEN "" ELSE found[1].text \o TextOf(found[1].kids)

\* the descendants of the nodes of found, in document order
RECURSIVE Descendants(_)
Descendants(found) ==
  IF found = <<>> THEN <<>>
  ELSE Flatten(Head(found).kids) \o Descendants(Tail(found))

\* $('span.author a')
AuthorLinks(dom) ==
  SelectSeq(Descendants(SelectSeq(Flatten(dom),
                                  LAMBDA n : n.tag = "span" /\ n.class = "author")),
            LAMBDA n : n.tag = "a")

\* const isGithub = fullUrl.includes('github.com');
IsGithub(fu) == Includes(fu, "github.com")

\* the isGithub block, on the document as it is when the block runs
GithubScrape(dom) ==
  LET stars == Or(Trim(FirstText(ByClass(dom, "js-social-count"))),
                  Trim(TextOf(ById(dom, "repo-stars-counter-star"))))
      forks == Trim(TextOf(ById(dom, "repo-network-counter")))
      author == Trim(TextOf(AuthorLinks(dom)))
  IN  SetKey(SetIf(SetIf(SetIf(NoMeta, "stars", stars), "forks", forks),
                   "author", author),
             "platform", "GitHub")

\* the isYoutube block
YoutubeScrape(meta, yt) ==
  SetKey(SetIf(meta, "author", yt.author_name), "platform", "YouTube")

\* the price selectors, in the order of the list ([itemprop="price"], an
\* attribute no document of this model carries, never matches)
PriceTexts(v, dom) ==
  <<Trim(FirstText(SelectSeq(Descendants(ByClass(dom, "a-price")),
                             LAMBDA n : n.class = "a-offscreen"))),
    Trim(FirstText(ByClass(dom, "price"))),
    Trim(FirstText(ById(dom, "priceblock_ourprice")))>>
    \o (IF v = "F" THEN <<Trim(FirstText(ByClass(dom, "product-price")))>> ELSE <<>>)

\* for (const sel of priceSelectors) { ... if (price) { ...; break; } }
RECURSIVE FirstNonEmpty(_)
FirstNonEmpty(texts) ==
  IF texts = <<>> THEN ""
  ELSE IF Head(texts) # "" THEN Head(texts)
  ELSE FirstNonEmpty(Tail(texts))

\* the revisions that scrape before the denylisted elements are removed
ScrapesBeforeRemove(v) == v = "P0"

HasMetadata(v) == v \in {"A3", "P1", "P0", "F"}

\* the metadata object of the manual-fallback response
ScrapedMetadata(v, doc, yt, fu) ==
  CASE v \in {"P0", "F"} ->
         LET dom == IF ScrapesBeforeRemove(v) THEN doc.body ELSE Remove(v, doc.body)
             github == IF IsGithub(fu) THEN GithubScrape(dom) ELSE NoMeta
             video == IF IsYoutube(fu) THEN YoutubeScrape(github, yt) ELSE github
         IN  SetIf(video, "price", FirstNonEmpty(PriceTexts(v, dom)))
    [] v = "P1" ->
         SetIf(SetKey(NoMeta, "platform", IF IsYoutube(fu) THEN "YouTube" ELSE "Web"),
               "author", yt.author_name)
    [] OTHER -> NoMeta

(***************************************************************************)
(* Reading time                                                            *)
(***************************************************************************)
\* bodyText.split(' ').length
WordCount(bodyText) ==
  Cardinality({i \in 1..Len(bodyText) : CharAt(bodyText, i) = " "}) + 1

WordsPerMinute == 200

\* Math.max(1, Math.ceil(wordCount / 200))
ReadTimeMinutes(wordCount) ==
  LET ceil == (wordCount + WordsPerMinute - 1) \div WordsPerMinute
  IN  IF ceil < 1 THEN 1 ELSE ceil

ComputesReadingTime(v) == v \in {"A1", "A2"}

\* readingTime: `${readTimeMinutes} min`  /  readingTime: "5 min"
ReadingTime(v, doc) ==
  IF ComputesReadingTime(v)
  THEN ToString(ReadTimeMinutes(WordCount(BodyText(v, doc)))) \o " min"
  ELSE "5 min"

(***************************************************************************)
(* The embed URL.  null is the empty string: the handler only ever writes  *)
(* null or a template followed by a non-empty id.                          *)
(***************************************************************************)
\* the prefix of s that ends before the first character of stop
RECURSIVE TakeUntil(_, _)
TakeUntil(s, stop) ==
  IF s = "" \/ CharAt(s, 1) \in stop THEN ""
  ELSE CharAt(s, 1) \o TakeUntil(DropFirst(s, 1), stop)

\* s.split(sep)[0]
BeforeFirst(s, sep) ==
  IF Includes(s, sep) THEN SubSeq(s, 1, IndexOf(s, sep) - 1) ELSE s

\* s.split(sep)[1], for an s that includes sep
SecondPiece(s, sep) == BeforeFirst(DropFirst(s, IndexOf(s, sep) + Len(sep) - 1), sep)

\* s.split('/').pop()
AfterLastSlash(s) == DropFirst(s, LastIndexOf(s, "/"))

RECURSIVE LastIndexOfStr(_, _, _)
LastIndexOfStr(s, p, i) ==
  IF i < 1 THEN 0
  ELSE IF SubSeq(s, i, i + Len(p) - 1) = p THEN i
  ELSE LastIndexOfStr(s, p, i - 1)

\* the alternatives of the regular expression that match at index i of s:
\* the index of the first character of the captured group, 0 when none does
YoutubeGroupAt(s, i) ==
  LET at(p) == i + Len(p) - 1 <= Len(s) /\ SubSeq(s, i, i + Len(p) - 1) = p
      watch == "youtube.com/watch?"
      amp == LastIndexOfStr(s, "&v=", Len(s) - 2)
  IN  IF at("youtu.be/") THEN i + 9
      ELSE IF at("youtube.com/embed/") THEN i + 18
      ELSE IF at("youtube.com/v/") THEN i + 14
      ELSE IF at("youtube.com/watch?v=") THEN i + 20
      ELSE IF at(watch) /\ amp > i + Len(watch) THEN amp + 3
      ELSE 0

RECURSIVE YoutubeGroupFrom(_, _)
YoutubeGroupFrom(s, i) ==
  IF i > Len(s) THEN 0
  ELSE IF YoutubeGroupAt(s, i) > 0 THEN YoutubeGroupAt(s, i)
  ELSE YoutubeGroupFrom(s, i + 1)

\* fullUrl.match(/(?:youtu\.be\/|youtube\.com\/(?:embed\/|v\/|watch\?v=|watch\?.+&v=))([^#&?]*)/)
\* match[1], "" when there is no match
YoutubeMatch(fu) ==
  LET g == YoutubeGroupFrom(fu, 1)
  IN  IF g = 0 THEN "" ELSE TakeUntil(DropFirst(fu, g - 1), {"#", "&", "?"})

\* fullUrl.includes('v=') ? fullUrl.split('v=')[1].split('&')[0] : fullUrl.split('/').pop()
YoutubeIdBySplit(fu) ==
  IF Includes(fu, "v=") THEN BeforeFirst(SecondPiece(fu, "v="), "&")
  ELSE AfterLastSlash(fu)

YoutubeEmbed(videoId) ==
  IF videoId # "" THEN "https://www.youtube.com/embed/" \o videoId ELSE ""

VimeoEmbed(videoId) ==
  IF videoId # "" THEN "https://player.vimeo.com/video/" \o videoId ELSE ""

HasEmbed(v) == v \in {"A3", "P1", "P0", "F"}

\* let embedUrl = null; if (isYoutube) { ... } else if (fullUrl.includes('vimeo.com')) { ... }
EmbedUrl(v, fu) ==
  IF ~HasEmbed(v) THEN ""
  ELSE IF IsYoutube(fu)
  THEN YoutubeEmbed(IF v = "A3" THEN YoutubeIdBySplit(fu) ELSE YoutubeMatch(fu))
  ELSE IF Includes(fu, "vimeo.com") THEN VimeoEmbed(AfterLastSlash(fu))
  ELSE ""

\* everything the handler computes between the page fetch and the AI call
Extract(v, doc, yt, url, fu, base) ==
  LET image == ExtractImage(v, doc, yt, base)
  IN  [done |-> TRUE,
       title |-> ExtractTitle(v, doc, yt, url),
       image |-> image,
       images |-> IF HasImages(v)
                  THEN PrimaryFirst(image, CollectImages(doc.imgs, base, Len(doc.imgs)))
                  ELSE <<>>,
       content |-> ExtractContent(v, doc),
       category |-> FallbackCategory(v, fu, BodyText(v, doc)),
       metadata |-> ScrapedMetadata(v, doc, yt, fu),
       readingTime |-> ReadingTime(v, doc),
       videoEmbed |-> EmbedUrl(v, fu),
       description |-> doc.description,
       imgs |-> SanitizedImgs(v, doc.imgs, base)]

(***************************************************************************)
(* The AI block                                                            *)
(*                                                                         *)
(* The text returned by the model is a sequence of segments: prose, or a   *)
(* serialised JSON object.  An object is a record of the values of its     *)
(* keys, with the set of the keys that are present.                        *)
(***************************************************************************)
NoData == [keys |-> {}, title |-> "", category |-> "", metadata |-> NoMeta]

Prose == [obj |-> FALSE, data |-> NoData]

Object(data) == [obj |-> TRUE, data |-> data]

\* JSON.parse(responseText) does not throw
StrictlyParses(text) == Len(text) = 1 /\ text[1].obj

ObjectIndexes(text) == {i \in 1..Len(text) : text[i].obj}

Min(S) == CHOOSE x \in S : \A y \in S : x <= y

Max(S) == CHOOSE x \in S : \A y \in S : x >= y

\* responseText.match(/\{[\s\S]*\}/): greedy, from the first "{" to the last "}"
JsonMatch(text) ==
  IF ObjectIndexes(text) = {} THEN <<>>
  ELSE SubSeq(text, Min(ObjectIndexes(text)), Max(ObjectIndexes(text)))

\* the try / catch around JSON.parse: aiData is obtained
AiDataObtained(text) ==
  \/ StrictlyParses(text)
  \/ (JsonMatch(text) # <<>> /\ StrictlyParses(JsonMatch(text)))

AiData(text) == IF StrictlyParses(text) THEN text[1].data ELSE JsonMatch(text)[1].data

\* const modelName = userModel || "gemini-1.5-flash";
ModelName(userModel) == Or(userModel, "gemini-1.5-flash")

\* the keys the handler itself writes, of those modelled here
ResultKeys(v) ==
  {"title", "content"}
    \cup (IF v # "A1" THEN {"image", "usedModel"} ELSE {})
    \cup (IF HasImages(v) THEN {"images"} ELSE {})
    \cup (IF HasEmbed(v) THEN {"videoEmbed"} ELSE {})

\* { title, content: contentHtml, image, images: productImages, ..., ...aiData, usedModel }
AiResponse(v, e, aiData, modelName) ==
  [status |-> 200,
   keys |-> ResultKeys(v) \cup aiData.keys,
   error |-> "", details |-> "",
   title |-> IF "title" \in aiData.keys THEN aiData.title ELSE e.title,
   content |-> e.content,
   image |-> e.image,
   images |-> e.images,
   videoEmbed |-> e.videoEmbed,
   metadata |-> IF "metadata" \in aiData.keys THEN aiData.metadata ELSE NoMeta,
   readingTime |-> "", summary |-> "",
   category |-> IF "category" \in aiData.keys THEN aiData.category ELSE "",
   usedModel |-> modelName]

\* the summary of the manual fallback
FallbackSummary(v, description) ==
  IF v = "F" THEN Or(Substring(description, 200) \o "...", "No summary available.")
  ELSE IF v = "A1" THEN Or(description, "No summary available for this link.")
  ELSE Or(description, "No summary available.")

\* { title, summary, content: contentHtml, image, images, category, ..., usedModel }
FallbackResponse(v, e) ==
  [status |-> 200,
   keys |-> ResultKeys(v) \cup {"summary", "category", "readingTime"}
              \cup (IF HasMetadata(v) THEN {"metadata"} ELSE {}),
   error |-> "", details |-> "",
   title |-> e.title,
   content |-> e.content,
   image |-> e.image,
   images |-> e.images,
   videoEmbed |-> e.videoEmbed,
   metadata |-> e.metadata,
   readingTime |-> e.readingTime,
   category |-> e.category,
   summary |-> FallbackSummary(v, e.description),
   usedModel |-> IF v = "A1" THEN "" ELSE "Manual Fallback"]

(***************************************************************************)
(* Inputs                                                                  *)
(***************************************************************************)
Methods == {"GET", "POST"}

Urls ==
  {"", "example.com/post", "https://example.com/post", "http://example.com/a/b?x=1",
   "httpbin.org/get", "ftp://files.example.org/x", "exa mple.com/post", "https://",
   "https://youtu.be/abc", "youtube.com/watch?v=abc", "https://github.com/o/r",
   "www.amazon.com/dp/1", "https://www.youtube.com/embed/abc",
   "https://www.youtube.com/v/abc", "https://youtu.be/abc?t=10", "https://youtu.be/",
   "https://www.youtube.com/watch?list=PL1&v=abc#t=5", "https://vimeo.com/123",
   "https://vimeo.com", "https://amzn.to/3xyz", "https://github.com/o/youtu.be"}

Credentials ==
  {[apiKey |-> "", model |-> ""], [apiKey |-> "key", model |-> ""],
   [apiKey |-> "key", model |-> "gemini-2.0-flash"]}

OEmbedOutcomes ==
  {[kind |-> "throws", data |-> NoYoutubeData],
   [kind |-> "status", data |-> NoYoutubeData],
   [kind |-> "invalid", data |-> NoYoutubeData],
   [kind |-> "null", data |-> NoYoutubeData],
   [kind |-> "json", data |-> NoYoutubeData],
   [kind |-> "json",
    data |-> [title |-> "Video T", author_name |-> "Channel",
              thumbnail_url |-> "https://i.ytimg.com/vi/abc/hqdefault.jpg"]]}

FailureStatuses == {404, 503}

MaxImgs == 3

\* an img element: its attributes, and the tag of the element it stands in
ImgIn(inside, dataSrc, src, srcset) ==
  [dataSrc |-> dataSrc, dataOriginal |-> "", src |-> src, srcset |-> srcset,
   inside |-> inside]

Img(dataSrc, src) == ImgIn("body", dataSrc, src, "")

ImgElements ==
  {Img("", "/a.png"), Img("", "https://example.com/a.png"), Img("", "b.png"),
   Img("/lazy.png", "data:image/gif;base64,R0lGOD")}

RECURSIVE SeqsUpTo(_, _)
SeqsUpTo(S, n) ==
  IF n = 0 THEN {<<>>}
  ELSE SeqsUpTo(S, n - 1)
         \cup {Append(q, x) : q \in {r \in SeqsUpTo(S, n - 1) : Len(r) = n - 1}, x \in S}

\* documents that differ in what the title, content and category read
TextDocs ==
  {[titleText |-> t, ogTitle |-> og, ogImage |-> "", description |-> "",
    imgs |-> <<>>,
    body |-> b] :
     t \in {"", "  ", " Page T "}, og \in {"", "OG T"},
     b \in {<<Elem("article", <<Leaf("p", "Hello")>>)>>,
            <<Elem("main", <<Leaf("p", "Stock market")>>)>>,
            <<Leaf("p", "Learn to Code")>>,
            <<>>}}

\* documents that differ in their images
ImageDocs ==
  {[titleText |-> "Page T", ogTitle |-> "", ogImage |-> og, description |-> "",
    imgs |-> imgs,
    body |-> <<Leaf("p", "B")>>] :
     og \in {"", "/a.png", "https://cdn.example.com/og.png"},
     imgs \in SeqsUpTo(ImgElements, MaxImgs)}

\* documents that differ in their og:image: a relative reference that begins
\* with the letters "http", a scheme-relative reference with a host that is
\* not one, a logo
OgImageDocs ==
  {[titleText |-> "Page T", ogTitle |-> "", ogImage |-> og, description |-> "",
    imgs |-> imgs,
    body |-> <<Leaf("p", "B")>>] :
     og \in {"httpfoo.png", "//exa mple.com/x.png", "https://cdn.example.com/logo.png"},
     imgs \in {<<>>, <<Img("", "/a.png")>>,
               <<Img("", "/img/site-logo.png"), Img("", "//exa mple.com/y.png"),
                 Img("", "/a.png")>>}}

Page(body) ==
  [titleText |-> "Page T", ogTitle |-> "", ogImage |-> "", description |-> "",
    imgs |-> <<>>, body |-> body]

\* documents with denylisted elements around and inside the content
ContentDocs ==
  {Page(<<Leaf("nav", "Menu"),
          Elem("article", <<Leaf("p", "Hello"), Leaf("script", "track()")>>),
          Leaf("footer", "Imprint")>>),
   Page(<<Elem("article", <<Leaf("iframe", "")>>),
          Elem("main", <<Leaf("p", "Main text")>>)>>),
   Page(<<Elem("header", <<Leaf("h1", "Site")>>),
          Node("div", "", "advertisement", "Buy now", <<>>),
          Node("div", "", "ad", "Sponsored", <<>>),
          Leaf("p", "Text")>>),
   Page(<<Leaf("nav", "Menu"), Leaf("aside", "Related")>>),
   Page(<<Leaf("p", "Watch"), Leaf("iframe", "")>>)}

\* the counters of a repository page, inside the element named by container
RepoDocs ==
  {Page(<<Elem(container,
               counters
                 \o <<Node("span", "repo-network-counter", "", "17", <<>>),
                      Node("span", "", "author", "", <<Leaf("a", "octo")>>)>>),
          Elem("article", <<Leaf("p", "Readme")>>)>>) :
     container \in {"div", "header"},
     counters \in {<<Node("a", "", "js-social-count", " 1.2k ", <<>>)>>,
                   <<Node("span", "repo-stars-counter-star", "", "340", <<>>)>>,
                   <<>>}}

\* a product page
PriceDocs ==
  {Page(<<Node("span", "", "product-price", "$10", <<>>)>>),
   Page(<<Node("span", "", "a-price", "", <<Node("span", "", "a-offscreen", "$12", <<>>)>>),
          Node("span", "", "price", "$11", <<>>)>>)}

\* n one-letter words
Words(n) == Join([i \in 1..n |-> IF i = 1 THEN "a" ELSE " a"], 1, n)

\* documents of 200 and of 201 words
WordDocs == {Page(<<Leaf("p", Words(n))>>) : n \in {WordsPerMinute, WordsPerMinute + 1}}

\* documents whose img elements lazy-load, carry a srcset, or stand inside
\* an element of the denylist
LazyDocs ==
  {[Page(<<Leaf("p", "B")>>) EXCEPT !.imgs = imgs] :
     imgs \in {<<ImgIn("body", "data:image/gif;base64,R0lGOD", "/real.png",
                       "/real-2x.png 2x")>>,
               <<ImgIn("nav", "", "/menu.png", ""),
                 ImgIn("body", "/lazy.png", "data:image/gif;base64,R0lGOD",
                       "/lazy-2x.png 2x")>>}}

\* documents with a meta description, of fewer and of more than 200 characters
DescriptionDocs ==
  {[Page(<<Leaf("p", "B")>>) EXCEPT !.description = d] :
     d \in {"A short description", Words(120)}}

Docs ==
  TextDocs \cup ImageDocs \cup OgImageDocs \cup ContentDocs \cup RepoDocs
    \cup PriceDocs \cup WordDocs \cup LazyDocs \cup DescriptionDocs

NoDoc ==
  [titleText |-> "", ogTitle |-> "", ogImage |-> "", description |-> "",
    imgs |-> <<>>, body |-> <<>>]

\* the documents the site at u may serve: the pages with many images are
\* those of example.com
DocsAt(u) == IF Includes(u, "example.com") THEN Docs ELSE Docs \ ImageDocs

\* what the page fetch of u may settle with
FetchOutcomes(u) ==
  {[throws |-> TRUE, status |-> 0, doc |-> NoDoc]}
    \cup {[throws |-> FALSE, status |-> st, doc |-> NoDoc] : st \in FailureStatuses}
    \cup {[throws |-> FALSE, status |-> 200, doc |-> d] : d \in DocsAt(u)}

AiTitle == [NoData EXCEPT !.keys = {"title"}, !.title = "AI T"]

AiObjects ==
  {[NoData EXCEPT !.keys = {"category", "metadata"}, !.category = "Research",
                   !.metadata = SetKey(SetKey(NoMeta, "stars", "999"), "platform", "GitHub")],
   [NoData EXCEPT !.keys = {"title", "category"}, !.category = "Articles"],
   AiTitle,
   NoData}

AiOutcomes ==
  {[throws |-> TRUE, text |-> <<>>], [throws |-> FALSE, text |-> <<Prose>>]}
    \cup {[throws |-> FALSE, text |-> <<Object(o)>>] : o \in AiObjects}
    \cup {[throws |-> FALSE, text |-> <<Prose, Object(o), Prose>>] : o \in AiObjects}
    \cup {[throws |-> FALSE,
           text |-> <<Object(AiTitle), Prose, Object(NoData)>>]}

(***************************************************************************)
(* The handler, from one await to the next                                 *)
(***************************************************************************)
NoResponse == [settled |-> FALSE, status |-> 0]

PageRequest(u) == [kind |-> "page", url |-> u]

OEmbedRequest(fu) == [kind |-> "oembed", url |-> OEmbedUrl(fu)]

AiRequest == [kind |-> "ai", url |-> ""]

\* the client before anything was stored or clicked
AppAtRest ==
  /\ bookmarks = <<>>
  /\ storedBookmarks = <<>>
  /\ apiKey = ""
  /\ selectedModel = "gemini-1.5-flash"
  /\ newUrl = ""
  /\ isAdding = FALSE
  /\ isProcessing = FALSE
  /\ inflight = {}
  /\ reading = {}
  /\ applied = <<>>
  /\ now = 0

NotReturned == [kind |-> "none", value |-> ""]

\* callGeminiApi before it is called
GeminiAtRest ==
  /\ gpc = "idle"
  /\ attempt = 0
  /\ delay = 0
  /\ waited = <<>>
  /\ warned = <<>>
  /\ returned = NotReturned
  /\ isAnalyzing = FALSE

\* the handler before a request arrives
HandlerAtRest ==
  /\ pc = "idle"
  /\ req = [method |-> "", url |-> "", apiKey |-> "", model |-> ""]
  /\ fullUrl = ""
  /\ youtubeData = NoYoutubeData
  /\ response = NoResponse
  /\ html = NoDoc
  /\ ext = NoExt
  /\ ai = "none"
  /\ net = <<>>
  /\ sent = <<>>
  /\ oembed = "none"
  /\ thrown = {}
  /\ aiText = <<>>

Init ==
  /\ variant \in Variants
  /\ HandlerAtRest
  /\ AppAtRest
  /\ GeminiAtRest

Reply(r) == sent' = Append(sent, r) /\ pc' = "done"

\* an exception raised at site: the places that threw so far
Throw(site) == thrown' = thrown \cup {site}

\* from the entry of the handler to its first await (or to its response)
Start(method, url, cred) ==
  /\ pc = "idle"
  /\ req' = [method |-> method, url |-> url, apiKey |-> cred.apiKey,
             model |-> cred.model]
  /\ UNCHANGED <<variant, youtubeData, response, html, ext, ai, oembed, aiText>>
  /\ UNCHANGED <<appVars, geminiVars>>
  /\ IF method # "POST"
     THEN Reply(MethodNotAllowed) /\ UNCHANGED <<fullUrl, net, thrown>>
     ELSE IF MissingUrl(url)
     THEN Reply(UrlRequired) /\ UNCHANGED <<fullUrl, net, thrown>>
     ELSE IF ~NormalizesBeforeFetch(variant)
     THEN /\ net' = Append(net, PageRequest(url))
          /\ pc' = "fetch"
          /\ UNCHANGED <<fullUrl, sent, thrown>>
     ELSE /\ fullUrl' = NormalizeUrl(url)
          /\ IF ~ParsesAsURL(fullUrl')
             THEN Throw("url") /\ Reply(CaughtError("Invalid URL")) /\ UNCHANGED net
             ELSE IF IsYoutube(fullUrl')
             THEN /\ net' = Append(net, OEmbedRequest(fullUrl'))
                  /\ pc' = "oembed"
                  /\ UNCHANGED <<sent, thrown>>
             ELSE /\ net' = Append(net, PageRequest(fullUrl'))
                  /\ pc' = "fetch"
                  /\ UNCHANGED <<sent, thrown>>

\* the oEmbed request settles; the page fetch is issued
OEmbedDone(outcome) ==
  /\ pc = "oembed"
  /\ oembed' = outcome.kind
  /\ youtubeData' = YoutubeDataAfter(outcome)
  /\ IF OEmbedRejects(outcome) THEN Throw("oembed") ELSE UNCHANGED thrown
  /\ net' = Append(net, PageRequest(fullUrl))
  /\ pc' = "fetch"
  /\ UNCHANGED <<variant, req, fullUrl, response, html, ext, ai, sent, aiText>>
  /\ UNCHANGED <<appVars, geminiVars>>

\* the page fetch settles: the document is scraped and either the AI call is
\* issued or the manual fallback is sent
FetchDone ==
  /\ pc = "fetch"
  /\ UNCHANGED <<variant, req, youtubeData, ai, oembed, aiText>>
  /\ UNCHANGED <<appVars, geminiVars>>
  /\ LET requested == net[Len(net)].url
         fetchable == Fetchable(requested)
         fu == IF NeverNormalizes(variant) THEN fullUrl ELSE NormalizeUrl(req.url)
         parses == ParsesAsURL(fu)
         base == IF parses /\ ~NeverNormalizes(variant) THEN BaseUrl(fu) ELSE NoBaseUrl
     IN  \E outcome \in FetchOutcomes(requested) :
           /\ ~fetchable => outcome.throws
           /\ IF outcome.throws
              THEN /\ Throw("fetch")
                   /\ Reply(CaughtError("fetch failed"))
                   /\ UNCHANGED <<fullUrl, response, html, ext, net>>
              ELSE /\ response' = [settled |-> TRUE, status |-> outcome.status]
                   /\ IF ~IsOk(outcome.status)
                      THEN /\ Throw("status")
                           /\ Reply(CaughtError("Failed to fetch URL: "
                                                  \o StatusText(outcome.status)))
                           /\ UNCHANGED <<fullUrl, html, ext, net>>
                      ELSE /\ html' = outcome.doc
                           /\ fullUrl' = fu
                           /\ IF ~NeverNormalizes(variant) /\ ~parses
                              THEN /\ Throw("url")
                                   /\ Reply(CaughtError("Invalid URL"))
                                   /\ UNCHANGED <<ext, net>>
                              ELSE IF youtubeData = NullData
                              THEN /\ Throw("youtubeData")
                                   /\ Reply(CaughtError("Cannot read properties of null"))
                                   /\ UNCHANGED <<ext, net>>
                              ELSE /\ ext' = Extract(variant, outcome.doc, youtubeData,
                                                     req.url, fu, base)
                                   /\ thrown' = thrown \cup AbsorbedInExtract(
                                                    variant, outcome.doc, youtubeData, base)
                                   /\ IF HasAI(variant) /\ req.apiKey # ""
                                      THEN /\ net' = Append(net, AiRequest)
                                           /\ pc' = "ai"
                                           /\ UNCHANGED sent
                                      ELSE /\ Reply(FallbackResponse(variant, ext'))
                                           /\ UNCHANGED net

\* the AI block without the return in front of res.status(200).json: the
\* fallback response is written after the AI response
AiDoneWithoutReturn(outcome) ==
  /\ pc = "ai"
  /\ aiText' = outcome.text
  /\ UNCHANGED <<variant, req, fullUrl, youtubeData, response, html, ext, net, oembed>>
  /\ UNCHANGED <<appVars, geminiVars>>
  /\ pc' = "done"
  /\ IF ~outcome.throws /\ AiDataObtained(outcome.text)
     THEN /\ ai' = "ok"
          /\ IF StrictlyParses(outcome.text) THEN UNCHANGED thrown ELSE Throw("json")
          /\ sent' = sent \o <<AiResponse(variant, ext, AiData(outcome.text),
                                          ModelName(req.model)),
                               FallbackResponse(variant, ext)>>
     ELSE /\ ai' = "failed"
          /\ Throw("ai")
          /\ sent' = Append(sent, FallbackResponse(variant, ext))

\* model.generateContent settles
AiDone(outcome) ==
  /\ pc = "ai"
  /\ aiText' = outcome.text
  /\ UNCHANGED <<variant, req, fullUrl, youtubeData, response, html, ext, net, oembed>>
  /\ UNCHANGED <<appVars, geminiVars>>
  /\ IF ~outcome.throws /\ AiDataObtained(outcome.text)
     THEN /\ ai' = "ok"
          /\ IF StrictlyParses(outcome.text) THEN UNCHANGED thrown ELSE Throw("json")
          /\ Reply(AiResponse(variant, ext, AiData(outcome.text), ModelName(req.model)))
     ELSE /\ ai' = "failed"
          /\ Throw("ai")
          /\ Reply(FallbackResponse(variant, ext))

Next ==
  \/ \E method \in Methods, url \in Urls, cred \in Credentials :
       Start(method, url, cred)
  \/ \E outcome \in OEmbedOutcomes : OEmbedDone(outcome)
  \/ FetchDone
  \/ \E outcome \in AiOutcomes : AiDone(outcome)

Spec == Init /\ [][Next]_vars

(***************************************************************************)
(* The client, src/unnamed/part_002: App                                   *)
(*                                                                         *)
(* A handler of a render reads the state of that render.  The click and    *)
(* key handlers run in the latest render; the part of handleAddBookmark    *)
(* after its await still reads the render in which it was called.          *)
(***************************************************************************)
MaxClock == 4

\* what the user types into the dialog
ClientUrls == {"https://a.example/1"}

\* the categories offered by the "Move to..." menu, of which the model moves
\* bookmarks to one
Categories == {"Coding"}

\* the files being read at a time
MaxReading == 1

Bookmark(id, url, isFavorite, category) ==
  [id |-> id, url |-> url, isFavorite |-> isFavorite, category |-> category]

\* what /api/analyze answers to the client: a 2xx JSON body, or a failure
\* (fetch rejects, the body is no JSON, a non-2xx status)
AnalyzeOutcomes ==
  {[ok |-> TRUE, category |-> "Coding"], [ok |-> FALSE, category |-> ""]}

Ids(list) == {list[k].id : k \in 1..Len(list)}

\* bookmarks.map(b => b.id === id ? { ...b, isFavorite: !b.isFavorite } : b)
ToggledFavorite(list, id) ==
  [k \in 1..Len(list) |->
     IF list[k].id = id THEN [list[k] EXCEPT !.isFavorite = ~@] ELSE list[k]]

\* bookmarks.filter(b => b.id !== id)
WithoutBookmark(list, id) == SelectSeq(list, LAMBDA b : b.id # id)

\* bookmarks.map(b => b.id === id ? { ...b, category: newCategory } : b)
WithCategory(list, id, newCategory) ==
  [k \in 1..Len(list) |->
     IF list[k].id = id THEN [list[k] EXCEPT !.category = newCategory] ELSE list[k]]

\* the contents of a file chosen for import: text that JSON.parse rejects, or
\* an object with its bookmarks field (absent, a value that is no array, or
\* an array) and its settings (absent fields are "")
NoSettings == [apiKey |-> "", selectedModel |-> ""]

BackupFile(json, field, items, settings) ==
  [json |-> json, field |-> field, bookmarks |-> items, settings |-> settings]

BackupFiles ==
  {BackupFile(FALSE, "absent", <<>>, NoSettings),
   BackupFile(TRUE, "absent", <<>>, [NoSettings EXCEPT !.apiKey = "key-2"]),
   BackupFile(TRUE, "object", <<>>, NoSettings),
   BackupFile(TRUE, "array", <<>>, NoSettings),
   BackupFile(TRUE, "array", <<Bookmark(90, "https://c.example/3", TRUE, "Videos")>>,
              [apiKey |-> "key-2", selectedModel |-> "gemini-pro"])}

\* JSON.parse succeeds and importedData.bookmarks is an array
IsBackup(file) == file.json /\ file.field = "array"

\* the useEffect on [bookmarks]: localStorage.setItem('things3-bookmarks', ...)
Persist == storedBookmarks' = bookmarks'

\* what localStorage holds when the app starts
SavedBookmarks == <<Bookmark(1, "https://a.example/0", FALSE, "Articles")>>

AppInit ==
  /\ variant = "F"
  /\ HandlerAtRest
  /\ GeminiAtRest
  /\ bookmarks = SavedBookmarks
  /\ storedBookmarks = SavedBookmarks
  /\ applied = SavedBookmarks
  /\ apiKey = "key-1"
  /\ selectedModel = "gemini-1.5-flash"
  /\ newUrl = ""
  /\ isAdding = FALSE
  /\ isProcessing = FALSE
  /\ inflight = {}
  /\ reading = {}
  /\ now = 2

AppFrame == UNCHANGED <<handlerVars, geminiVars>>

\* the + button: onClick={() => setIsAdding(true)}
OpenAdd ==
  /\ ~isAdding
  /\ isAdding' = TRUE
  /\ UNCHANGED <<bookmarks, storedBookmarks, apiKey, selectedModel, newUrl,
                 isProcessing, inflight, reading, applied, now>>
  /\ AppFrame

\* the input of the dialog: onChange={e => setNewUrl(e.target.value)}
TypeUrl(url) ==
  /\ isAdding
  /\ newUrl # url
  /\ newUrl' = url
  /\ UNCHANGED <<bookmarks, storedBookmarks, apiKey, selectedModel, isAdding,
                 isProcessing, inflight, reading, applied, now>>
  /\ AppFrame

\* handleAddBookmark up to its await; the Enter key of the input calls it
\* whether or not a request is being processed
SubmitAdd ==
  /\ isAdding
  /\ newUrl # ""
  /\ now < MaxClock
  /\ isProcessing' = TRUE
  /\ inflight' = inflight \cup {[at |-> now, url |-> newUrl, bookmarks |-> bookmarks]}
  /\ now' = now + 1
  /\ UNCHANGED <<bookmarks, storedBookmarks, apiKey, selectedModel, newUrl,
                 isAdding, reading, applied>>
  /\ AppFrame

\* handleAddBookmark from its await on
AddSettles(call, outcome) ==
  /\ call \in inflight
  /\ inflight' = inflight \ {call}
  /\ isProcessing' = FALSE
  /\ IF outcome.ok
     THEN LET newBookmark == Bookmark(now, call.url, FALSE, outcome.category)
          IN  /\ bookmarks' = <<newBookmark>> \o call.bookmarks
              /\ applied' = <<newBookmark>> \o applied
              /\ Persist
              /\ newUrl' = ""
              /\ isAdding' = FALSE
              /\ now' = now + 1
     ELSE UNCHANGED <<bookmarks, storedBookmarks, applied, newUrl, isAdding, now>>
  /\ UNCHANGED <<apiKey, selectedModel, reading>>
  /\ AppFrame

\* the list is behind the dialog while the dialog is open
ListReachable == ~isAdding

toggleFavorite(id) ==
  /\ ListReachable
  /\ id \in Ids(bookmarks)
  /\ bookmarks' = ToggledFavorite(bookmarks, id)
  /\ applied' = ToggledFavorite(applied, id)
  /\ Persist
  /\ UNCHANGED <<apiKey, selectedModel, newUrl, isAdding, isProcessing, inflight,
                 reading, now>>
  /\ AppFrame

deleteBookmark(id) ==
  /\ ListReachable
  /\ id \in Ids(bookmarks)
  /\ bookmarks' = WithoutBookmark(bookmarks, id)
  /\ applied' = WithoutBookmark(applied, id)
  /\ Persist
  /\ UNCHANGED <<apiKey, selectedModel, newUrl, isAdding, isProcessing, inflight,
                 reading, now>>
  /\ AppFrame

changeCategory(id, newCategory) ==
  /\ ListReachable
  /\ id \in Ids(bookmarks)
  /\ bookmarks' = WithCategory(bookmarks, id, newCategory)
  /\ applied' = WithCategory(applied, id, newCategory)
  /\ Persist
  /\ UNCHANGED <<apiKey, selectedModel, newUrl, isAdding, isProcessing, inflight,
                 reading, now>>
  /\ AppFrame

\* handleFileChange: the file is handed to the reader
handleFileChange(file) ==
  /\ ListReachable
  /\ file \notin reading
  /\ Cardinality(reading) < MaxReading
  /\ reading' = reading \cup {file}
  /\ UNCHANGED <<bookmarks, storedBookmarks, apiKey, selectedModel, newUrl,
                 isAdding, isProcessing, inflight, applied, now>>
  /\ AppFrame

\* the import that keeps the bookmarks it finds
FileLoadedMerging(file, confirmed) ==
  /\ file \in reading
  /\ reading' = reading \ {file}
  /\ bookmarks' = file.bookmarks \o bookmarks
  /\ applied' = bookmarks'
  /\ Persist
  /\ UNCHANGED <<apiKey, selectedModel, newUrl, isAdding, isProcessing, inflight, now>>
  /\ AppFrame

\* reader.onload; confirmed is the answer to confirm(...)
FileLoaded(file, confirmed) ==
  /\ file \in reading
  /\ reading' = reading \ {file}
  /\ IF IsBackup(file) /\ confirmed
     THEN /\ bookmarks' = file.bookmarks
          /\ applied' = file.bookmarks
          /\ Persist
          /\ apiKey' = Or(file.settings.apiKey, apiKey)
          /\ selectedModel' = Or(file.settings.selectedModel, selectedModel)
     ELSE UNCHANGED <<bookmarks, storedBookmarks, applied, apiKey, selectedModel>>
  /\ UNCHANGED <<newUrl, isAdding, isProcessing, inflight, now>>
  /\ AppFrame

AppNext ==
  \/ OpenAdd
  \/ \E url \in ClientUrls : TypeUrl(url)
  \/ SubmitAdd
  \/ \E call \in inflight, outcome \in AnalyzeOutcomes : AddSettles(call, outcome)
  \/ \E id \in Ids(bookmarks) : toggleFavorite(id)
  \/ \E id \in Ids(bookmarks) : deleteBookmark(id)
  \/ \E id \in Ids(bookmarks), newCategory \in Categories : changeCategory(id, newCategory)
  \/ \E file \in BackupFiles : handleFileChange(file)
  \/ \E file \in BackupFiles, confirmed \in BOOLEAN : FileLoaded(file, confirmed)

AppSpec == AppInit /\ [][AppNext]_vars

(***************************************************************************)
(* callGeminiApi, src/src/App.jsx, and its caller handleRunAiAnalysis      *)
(***************************************************************************)
maxRetries == 5

InitialDelay == 1000

Null == [kind |-> "null", value |-> ""]

Undefined == [kind |-> "undefined", value |-> ""]

Value(v) == [kind |-> "value", value |-> v]

\* how the fetch of an attempt settles: it rejects, or it answers with or
\* without response.ok
GeminiFetchOutcomes == {"rejects", "status", "ok"}

\* how response.json() settles: it rejects; the body is null; the body has
\* no candidate text; the text is no JSON; the text is the JSON null; the
\* text is a JSON object
GeminiBodies == {"rejects", "nullBody", "noText", "notJson", "jsonNull", "object"}

\* what the try block throws for a body, "" when it returns
BodyError(body) ==
  CASE body = "rejects" -> "SyntaxError: body"
    [] body = "nullBody" -> "TypeError"
    [] body = "notJson" -> "SyntaxError: text"
    [] OTHER -> ""

\* return structured ? JSON.parse(text) : text;  and  return null;
BodyResult(body) == IF body = "object" THEN Value("analysis") ELSE Null

\* the retry test with the bound of the loop itself
MayRetryOnceMore(n) == n < maxRetries

\* if (i < maxRetries - 1)
MayRetry(n) == n < maxRetries - 1

GeminiInit ==
  /\ variant = "F"
  /\ HandlerAtRest
  /\ AppAtRest
  /\ GeminiAtRest

GeminiFrame == UNCHANGED <<handlerVars, appVars>>

\* handleRunAiAnalysis up to its await, and callGeminiApi up to its first
\* fetch
handleRunAiAnalysis ==
  /\ gpc = "idle"
  /\ ~isAnalyzing
  /\ isAnalyzing' = TRUE
  /\ attempt' = 0
  /\ delay' = InitialDelay
  /\ waited' = <<>>
  /\ warned' = <<>>
  /\ returned' = NotReturned
  /\ gpc' = "fetch"
  /\ GeminiFrame

\* the catch block of the loop, for the error thrown in the try block
Caught(error) ==
  /\ warned' = Append(warned, error)
  /\ IF MayRetry(attempt)
     THEN /\ waited' = Append(waited, delay)
          /\ gpc' = "wait"
          /\ UNCHANGED returned
     ELSE /\ returned' = Null
          /\ gpc' = "returned"
          /\ UNCHANGED waited

\* await fetch(url, ...) settles
GeminiFetchSettles(outcome) ==
  /\ gpc = "fetch"
  /\ IF outcome = "ok"
     THEN gpc' = "json" /\ UNCHANGED <<waited, warned, returned>>
     ELSE Caught(IF outcome = "rejects" THEN "TypeError: fetch" ELSE "HTTP error")
  /\ UNCHANGED <<attempt, delay, isAnalyzing>>
  /\ GeminiFrame

\* await response.json() settles
GeminiJsonSettles(body) ==
  /\ gpc = "json"
  /\ IF BodyError(body) # ""
     THEN Caught(BodyError(body))
     ELSE /\ returned' = BodyResult(body)
          /\ gpc' = "returned"
          /\ UNCHANGED <<waited, warned>>
  /\ UNCHANGED <<attempt, delay, isAnalyzing>>
  /\ GeminiFrame

\* the timer of the backoff fires: delay *= 2, i++, and the loop test
TimerFires ==
  /\ gpc = "wait"
  /\ delay' = delay * 2
  /\ attempt' = attempt + 1
  /\ IF attempt' < maxRetries
     THEN gpc' = "fetch" /\ UNCHANGED returned
     ELSE gpc' = "returned" /\ returned' = Undefined
  /\ UNCHANGED <<waited, warned, isAnalyzing>>
  /\ GeminiFrame

\* handleRunAiAnalysis after its await: finally { setIsAnalyzing(false) }
AnalysisSettles ==
  /\ gpc = "returned"
  /\ isAnalyzing' = FALSE
  /\ gpc' = "idle"
  /\ UNCHANGED <<attempt, delay, waited, warned, returned>>
  /\ GeminiFrame

GeminiNext ==
  \/ handleRunAiAnalysis
  \/ \E outcome \in GeminiFetchOutcomes : GeminiFetchSettles(outcome)
  \/ \E body \in GeminiBodies : GeminiJsonSettles(body)
  \/ TimerFires
  \/ AnalysisSettles

\* every request settles and every timer fires
GeminiSpec == GeminiInit /\ [][GeminiNext]_vars /\ WF_vars(GeminiNext)

(***************************************************************************)
(* Properties                                                              *)
(***************************************************************************)
Responded == pc = "done" /\ Len(sent) > 0

LastSent == sent[Len(sent)]

Succeeded == Responded /\ LastSent.status = 200

NetworkUsed == net # <<>>

CategoryEnum == {"Videos", "Coding", "Shopping", "Research", "Articles"}

NoDuplicates(seq) == \A i, j \in 1..Len(seq) : i # j => seq[i] # seq[j]

Occurs(seq, x) == \E i \in 1..Len(seq) : seq[i] = x

\* C1: when the page fetch succeeded and the AI block failed (the call threw or
\* its text could not be parsed), the response is 200 with usedModel "Manual
\* Fallback", a non-empty title, a non-empty content and a category of the
\* five-value enumeration.
C1_FallbackWellFormed ==
  (Responded /\ ai = "failed") =>
    /\ LastSent.status = 200
    /\ LastSent.usedModel = "Manual Fallback"
    /\ LastSent.title # ""
    /\ LastSent.content # ""
    /\ LastSent.category \in CategoryEnum

\* C2: when the page fetch settles with a non-2xx status S, the response to the
\* caller has status S and an error field, and no 200 response is sent.
C2_UpstreamStatusMirrored ==
  (Responded /\ response.settled /\ ~IsOk(response.status)) =>
    /\ LastSent.status = response.status
    /\ "error" \in LastSent.keys
    /\ \A i \in 1..Len(sent) : sent[i].status # 200

\* C3: a request that is not a POST is answered 405, a POST without url is
\* answered 400 {error: "URL is required"}, and in both cases nothing was handed
\* to the network.
C3_InputRejectedBeforeNetwork ==
  /\ (pc # "idle" /\ req.method # "POST") =>
       /\ Responded /\ Len(sent) = 1
       /\ LastSent.status = 405
       /\ ~NetworkUsed
  /\ (pc # "idle" /\ req.method = "POST" /\ req.url = "") =>
       /\ Responded /\ Len(sent) = 1
       /\ LastSent.status = 400
       /\ LastSent.keys = {"error"}
       /\ LastSent.error = "URL is required"
       /\ ~NetworkUsed

C3_Witness ==
  /\ Responded
  /\ req.method = "POST"
  /\ req.url = ""
  /\ req.apiKey # ""
  /\ LastSent.status = 400

\* C4: a url that is present but does not parse once the scheme has been
\* prepended is answered with a 4xx status, with nothing handed to the network.
C4_MalformedUrlIs4xx ==
  (Responded /\ req.method = "POST" /\ req.url # ""
     /\ ~ParsesAsURL(NormalizeUrl(req.url))) =>
    /\ LastSent.status \in 400..499
    /\ ~NetworkUsed

\* C5: every URL handed to the page fetch is the normalized absolute URL, built
\* and parsed before the fetch is issued.
C5_FetchGetsNormalizedUrl ==
  \A i \in 1..Len(net) :
    net[i].kind = "page" =>
      /\ fullUrl # ""
      /\ ParsesAsURL(fullUrl)
      /\ net[i].url = fullUrl
      /\ ~HasScheme(req.url) => net[i].url = "https://" \o req.url

\* C6: normalization leaves a url that starts with a scheme unchanged, prepends
\* "https://" to one that does not, and is idempotent.
C6_NormalizationBySchemePresence ==
  fullUrl # "" =>
    /\ HasScheme(req.url) => fullUrl = req.url
    /\ ~HasScheme(req.url) => fullUrl = "https://" \o req.url
    /\ NormalizeUrl(fullUrl) = fullUrl

\* C7: the title is the first non-empty of: oEmbed title, og:title, trimmed
\* text of the first <title>, the url as submitted.
C7_TitleFallbackChain ==
  ext.done =>
    /\ ext.title =
         Or(youtubeData.title,
            Or(html.ogTitle, Or(Trim(html.titleText), req.url)))
    /\ (Succeeded /\ ai # "ok") => LastSent.title = ext.title

\* C8: in every 200 response, whichever path produced it, title is non-empty.
C8_TitleNeverEmpty == Succeeded => LastSent.title # ""

\* C9: the images array of a response has no two equal URLs.
C9_ImagesDistinct ==
  /\ ext.done => NoDuplicates(ext.images)
  /\ (Succeeded /\ "images" \in LastSent.keys) => NoDuplicates(LastSent.images)

C11_ImagesAbsolute ==
  Succeeded =>
    /\ ("image" \in LastSent.keys /\ LastSent.image # "") => ParsesAsURL(LastSent.image)
    /\ "images" \in LastSent.keys =>
         \A i \in 1..Len(LastSent.images) : ParsesAsURL(LastSent.images[i])

YoutubeShapes ==
  {"youtu.be/", "youtube.com/watch?v=", "youtube.com/embed/", "youtube.com/v/"}

\* the video id of a url of the shape m: what follows m, up to the end of the
\* url or to the next "?", "&", "#" or "/"
ShapeId(url, m) ==
  TakeUntil(DropFirst(url, IndexOf(url, m) + Len(m) - 1), {"?", "&", "#", "/"})

\* the text of the star counter of a repository page, "" when it has none
StarText(doc) ==
  Or(Trim(FirstText(ByClass(doc.body, "js-social-count"))),
     Trim(TextOf(ById(doc.body, "repo-stars-counter-star"))))

ManualFallback == Succeeded /\ LastSent.usedModel = "Manual Fallback"

\* C13: a github.com url without apiKey whose page has a star counter of text T
\* is answered, without any AI call, by a 200 response with metadata.stars = T,
\* category "Coding" and usedModel "Manual Fallback".
C13_GithubStars ==
  (/\ Responded
   /\ HasMetadata(variant)
   /\ IsGithub(fullUrl) /\ ~IsYoutube(fullUrl)
   /\ req.apiKey = ""
   /\ response.settled /\ IsOk(response.status)
   /\ StarText(html) # "") =>
    /\ \A i \in 1..Len(net) : net[i].kind # "ai"
    /\ LastSent.status = 200
    /\ "metadata" \in LastSent.keys
    /\ "stars" \in LastSent.metadata.keys
    /\ LastSent.metadata.stars = StarText(html)
    /\ LastSent.category = "Coding"
    /\ LastSent.usedModel = "Manual Fallback"

ContentDenylist == {"script", "style", "nav", "footer", "header", "aside", "iframe"}

\* C14: the content of a 200 response is the inner HTML of the first non-empty
\* of <article>, <main>, <body> once script, style, nav, footer, header, aside,
\* iframe and .ad elements are removed, the placeholder when none has any; it
\* is never empty and holds no denylisted element.
C14_ContentSanitized ==
  Succeeded =>
    /\ LastSent.content # ""
    /\ \A t \in ContentDenylist : ~Includes(LastSent.content, "<" \o t)
    /\ ~Includes(LastSent.content, "class=\"ad\"")
    /\ LET dom == Remove("F", html.body)
       IN  LastSent.content =
             Or(InnerHtml(dom, "article"),
                Or(InnerHtml(dom, "main"), Or(HtmlOf(dom), Placeholder)))

\* C15: on the manual fallback readingTime is max(1, ceil(words / 200)) minutes,
\* words being the word count of the text of the page.
C15_ReadingTimeByWordCount ==
  (Succeeded /\ ai # "ok" /\ "readingTime" \in LastSent.keys) =>
    LET words == WordCount(BodyText(variant, html))
        minutes == IF words <= WordsPerMinute THEN 1
                   ELSE IF words <= 2 * WordsPerMinute THEN 2
                   ELSE 3
    IN  /\ words <= 3 * WordsPerMinute
        /\ LastSent.readingTime = ToString(minutes) \o " min"

\* the category the priority order gives to a url
CategoryByPriority(fu) ==
  IF Includes(fu, "youtube.com") \/ Includes(fu, "youtu.be") THEN "Videos"
  ELSE IF Includes(fu, "github.com") THEN "Coding"
  ELSE IF Includes(fu, "amazon") \/ Includes(fu, "amzn") \/ Includes(fu, "ebay")
  THEN "Shopping"
  ELSE "Articles"

\* C19: the manual-fallback category follows the priority order YouTube ->
\* Videos, GitHub -> Coding, amazon / amzn / ebay -> Shopping, otherwise
\* Articles, and a platform written into metadata is the one of that rule.
C19_CategoryPriority ==
  (ManualFallback /\ "metadata" \in LastSent.keys) =>
    /\ LastSent.category = CategoryByPriority(fullUrl)
    /\ "platform" \in LastSent.metadata.keys =>
         /\ LastSent.metadata.platform = "YouTube" <=> LastSent.category = "Videos"
         /\ LastSent.metadata.platform = "GitHub" <=> LastSent.category = "Coding"

OEmbedFailures == {"throws", "status", "invalid"}

\* C16: when the oEmbed request of a YouTube url fails (it throws, it answers a
\* non-2xx status, or its body is not JSON), youtubeData stays empty, the page
\* fetch is issued next, the response is 200 exactly when the page was fetched
\* with a 2xx status, and title, image and author come from the HTML alone.
C16_OEmbedFailureAbsorbed ==
  oembed \in OEmbedFailures =>
    /\ youtubeData = NoYoutubeData
    /\ Len(net) >= 2 /\ net[1].kind = "oembed" /\ net[2] = PageRequest(fullUrl)
    /\ Responded => (LastSent.status = 200 <=> (response.settled /\ IsOk(response.status)))
    /\ ext.done =>
         /\ ext.title = Or(html.ogTitle, Or(Trim(html.titleText), req.url))
         /\ ext.image = ExtractImage(variant, html, NoYoutubeData, BaseUrl(fullUrl))
         /\ "author" \in ext.metadata.keys =>
              ext.metadata.author = Trim(TextOf(AuthorLinks(html.body)))

\* a YouTube page answered from its HTML after an oEmbed body that is not JSON
C16_Witness ==
  /\ Succeeded
  /\ oembed = "invalid"
  /\ "oembed" \in thrown
  /\ html.ogTitle # ""
  /\ LastSent.title = html.ogTitle

\* the places whose exceptions a try / catch inside the handler absorbs
AbsorbedSites == {"oembed", "image", "img", "json", "ai"}

C18_NoIconLogoAvatar ==
  (Succeeded /\ "images" \in LastSent.keys) =>
    \A i \in 1..Len(LastSent.images) :
      /\ ~Includes(LastSent.images[i], "icon")
      /\ ~Includes(LastSent.images[i], "logo")
      /\ ~Includes(LastSent.images[i], "avatar")

\* C12: for a YouTube url of one of the shapes youtu.be/ID, watch?v=ID,
\* embed/ID, v/ID with a non-empty ID, a 200 response of a revision that
\* resolves embeds has videoEmbed "https://www.youtube.com/embed/" followed by
\* that ID, and on the manual fallback its category is "Videos".
C12_YoutubeEmbed ==
  \A m \in YoutubeShapes :
    (/\ Succeeded
     /\ "videoEmbed" \in LastSent.keys
     /\ Includes(req.url, m)
     /\ ShapeId(req.url, m) # "") =>
      /\ LastSent.videoEmbed = "https://www.youtube.com/embed/" \o ShapeId(req.url, m)
      /\ ai # "ok" => LastSent.category = "Videos"

IdChars == AlphaSet \cup CharsOf(DigitChars) \cup {"-", "_"}

IsVideoId(id) == id # "" /\ \A i \in 1..Len(id) : CharAt(id, i) \in IdChars

EmbedTemplates == {"https://www.youtube.com/embed/", "https://player.vimeo.com/video/"}

\* C20: videoEmbed is null unless the url is a YouTube or Vimeo url, and a
\* videoEmbed that is not null is an embed template followed by a non-empty
\* video id taken from the url.
C20_EmbedOnlyForVideos ==
  (Succeeded /\ "videoEmbed" \in LastSent.keys) =>
    /\ ~(IsYoutube(fullUrl) \/ Includes(fullUrl, "vimeo.com")) => LastSent.videoEmbed = ""
    /\ LastSent.videoEmbed # "" =>
         \E t \in EmbedTemplates :
           /\ StartsWith(LastSent.videoEmbed, t)
           /\ IsVideoId(DropFirst(LastSent.videoEmbed, Len(t)))
           /\ Includes(PathOf(Href(fullUrl)) \o DropFirst(fullUrl, Len(BeforeFirst(fullUrl, "?"))),
                       DropFirst(LastSent.videoEmbed, Len(t)))

\* the document as it is once the denylisted elements are removed
AfterRemove(v, doc) == [doc EXCEPT !.body = Remove(v, doc.body)]

PlatformFields == {"stars", "forks", "author", "price"}

\* C21: every extraction stage reads the document after the sanitizer pass:
\* a scraped platform field is the one the sanitized document yields, and every
\* entry of images is the primary image or the source of an img element that
\* the sanitizer left in the document.
C21_ExtractionAfterSanitizer ==
  ext.done =>
    LET clean == ScrapedMetadata(variant, AfterRemove(variant, html), youtubeData, fullUrl)
    IN  /\ \A k \in PlatformFields \cap ext.metadata.keys :
             k \in clean.keys /\ ext.metadata[k] = clean[k]
        /\ \A i \in 1..Len(ext.images) :
             \/ ext.images[i] = ext.image
             \/ \E j \in 1..Len(ext.imgs) : ext.imgs[j].src = ext.images[i]

\* the img elements of the fetched document that the sanitizer leaves, as
\* they were before the pass
KeptImgs == SelectSeq(html.imgs, LAMBDA img : img.inside \notin DenyTags(variant))

IsDataUrl(s) == StartsWith(s, "data:")

Rewritten(img) == ParsesAsURL(img.src) /\ img.srcset = ""

\* C22: after the sanitizer pass every img element left whose effective
\* source is present and no data: URL has an absolute src and no srcset, and
\* so has an img whose lazy-load attribute is a data: URL while its src is a
\* real relative URL.
C22_ImgsRewritten ==
  ext.done =>
    \A i \in 1..Len(KeptImgs) :
      LET before == KeptImgs[i]
          after == ext.imgs[i]
          lazy == Or(before.dataSrc, before.dataOriginal)
      IN  /\ (RealSrc(before) # "" /\ ~IsDataUrl(RealSrc(before))) => Rewritten(after)
          /\ (IsDataUrl(lazy) /\ before.src # "" /\ ~IsDataUrl(before.src)
                /\ ~HasScheme(before.src))
               => Rewritten(after)

\* C29: the summary of the manual fallback is the page description when one
\* was found, whole or cut to 200 characters with "..." after it, and is
\* "No summary available." when none was found; it is never "..." alone.
C29_FallbackSummary ==
  (Succeeded /\ LastSent.usedModel \in {"", "Manual Fallback"} /\ "summary" \in LastSent.keys) =>
    /\ LastSent.summary # "..."
    /\ IF html.description = ""
       THEN LastSent.summary = "No summary available."
       ELSE LastSent.summary \in {html.description,
                                  Substring(html.description, 200) \o "..."}

Issued(kind) == Cardinality({i \in 1..Len(net) : net[i].kind = kind})

\* C23: within one request the page fetch, the AI call and the oEmbed request
\* are each issued at most once, also after a failure; the oEmbed request is
\* issued only for a url that contains youtube.com or youtu.be; and when the
\* extraction has run, the page fetch and the oEmbed request (if one was
\* issued) have settled.
C23_NoRetry ==
  /\ Issued("page") <= 1
  /\ Issued("ai") <= 1
  /\ Issued("oembed") <= 1
  /\ \A i \in 1..Len(net) :
       net[i].kind = "oembed" =>
         \/ Includes(NormalizeUrl(req.url), "youtube.com")
         \/ Includes(NormalizeUrl(req.url), "youtu.be")
  /\ ext.done =>
       /\ response.settled
       /\ Issued("oembed") = 1 => oembed # "none"

\* a YouTube request whose oEmbed request failed and whose AI call failed:
\* three requests went out, one of each kind
C23_Witness ==
  /\ pc = "done"
  /\ ai = "failed"
  /\ oembed \in OEmbedFailures
  /\ Issued("oembed") = 1 /\ Issued("page") = 1 /\ Issued("ai") = 1

\* C24: an AI text that does not parse strictly but holds an object is
\* recovered from its first balanced {...} span: the request is answered on
\* the AI-success path with the fields of the first object of the text.
C24_FirstBalancedSpan ==
  (pc = "done" /\ aiText # <<>> /\ ~StrictlyParses(aiText) /\ ObjectIndexes(aiText) # {}) =>
    /\ ai = "ok"
    /\ LastSent = AiResponse(variant, ext, aiText[Min(ObjectIndexes(aiText))].data,
                             ModelName(req.model))

\* C25: on the AI-success path every scraped platform field is in the
\* metadata of the response with its scraped value.
C25_ScrapedFieldsKept ==
  (pc = "done" /\ ai = "ok") =>
    \A k \in PlatformFields \cap ext.metadata.keys :
      /\ "metadata" \in LastSent.keys
      /\ k \in LastSent.metadata.keys
      /\ LastSent.metadata[k] = ext.metadata[k]

\* C27: an invocation writes one response and no second one: none while the
\* handler runs, one when it has returned.
C27_ExactlyOneResponse ==
  /\ Len(sent) <= 1
  /\ pc = "done" <=> Len(sent) = 1

\* the AI result was obtained, JSON.parse threw inside the AI block, and the
\* fallback response is the only one written
C27_Witness ==
  /\ pc = "done"
  /\ aiText # <<>>
  /\ ai = "failed"
  /\ Len(sent) = 1
  /\ LastSent.usedModel = "Manual Fallback"

\* C26: an import is all or nothing: when the file parses, its bookmarks field
\* is an array and the user confirms, the list and its persisted copy are the
\* imported array; in every other case bookmarks, apiKey and selectedModel stay
\* as they were.
C26_ImportAllOrNothing ==
  [][\A file \in BackupFiles, confirmed \in BOOLEAN :
       FileLoaded(file, confirmed) =>
         IF file.json /\ file.field = "array" /\ confirmed
         THEN bookmarks' = file.bookmarks /\ storedBookmarks' = file.bookmarks
         ELSE UNCHANGED <<bookmarks, apiKey, selectedModel>>]_vars

\* a confirmed import has replaced a list that held a bookmark: the list is
\* the imported array and nothing else
C26_Witness ==
  /\ bookmarks = <<Bookmark(90, "https://c.example/3", TRUE, "Videos")>>
  /\ storedBookmarks = bookmarks
  /\ apiKey = "key-2"
  /\ reading = {}

AsSet(list) == {list[k] : k \in 1..Len(list)}

\* C28: when no analyze request is in flight, the list holds what every
\* completed add, delete, favorite and category change made of it: a bookmark
\* for each successful add that was not deleted, no deleted bookmark, and the
\* favorite flag and category last given to each.
C28_NoLostUpdate ==
  inflight = {} => AsSet(bookmarks) = AsSet(applied)

Backoff == <<1000, 2000, 4000, 8000>>

\* the attempts started so far in the running call
Attempts == IF gpc = "idle" /\ returned = NotReturned THEN 0 ELSE attempt + 1

\* C30: callGeminiApi makes at most 5 attempts, waits 1000, 2000, 4000, 8000 ms
\* after its failed attempts and only between two attempts, returns the parsed
\* result of the first attempt that succeeds, returns null after the fifth
\* failure or for a response without candidate text, returns nothing else, and
\* every call returns.
C30_ReturnsWithinFiveAttempts ==
  /\ [](/\ Attempts <= maxRetries
        /\ Len(waited) <= Len(Backoff)
        /\ waited = SubSeq(Backoff, 1, Len(waited))
        /\ Len(waited) = IF gpc = "wait" THEN attempt + 1 ELSE attempt
        /\ Len(warned) = IF returned = Null /\ Len(warned) = maxRetries
                         THEN attempt + 1 ELSE Len(waited)
        /\ returned # NotReturned =>
             /\ returned.kind \in {"value", "null"}
             /\ returned.kind = "value" => Len(warned) = attempt
             /\ Len(warned) = maxRetries => returned = Null)
  /\ (gpc = "fetch" ~> gpc = "returned")

\* five attempts failed, four waits lie between them, and null is returned
C30_Witness ==
  /\ gpc = "returned"
  /\ Len(warned) = maxRetries
  /\ waited = Backoff
  /\ returned = Null

====
